---- MODULE Spec2Model ----
(***************************************************************************)
(* Model of the chat relay of src/src/index.ts: the D1 helpers, routeChat  *)
(* (validation, user insert, upstream call, non-streaming pass-through,    *)
(* streaming tee with SSE capture and end-of-stream persistence) and       *)
(* routeDeleteChat running concurrently with it.                           *)
(*                                                                         *)
(* Text is modelled as sequences of one-letter symbols.  Upstream bytes:   *)
(*   "d"  the line prefix `data:`          "n"  a line feed                *)
(*   "s"  a space (U+0020)                 "x"  other plain text           *)
(*   "{"  `{"choices":[{"delta":{"content":"`                              *)
(*   "}"  `"}}]}`                          "D"  `[DONE]`                   *)
(*   "a"  an ASCII letter                  "S"  `{"__stored": true}`       *)
(*   "L","C"  the lead and the continuation byte of a two-byte UTF-8       *)
(*            character                                                    *)
(* Decoded text has the same symbols except that "L","C" never occur in    *)
(* it: "E" is the two-byte character and "R" is U+FFFD.                     *)
(* Text of a bubble of the page has two more symbols:                      *)
(*   "X"  the error text of a response that is not ok                      *)
(*   "!"  the network error text of onSend's catch                         *)
(***************************************************************************)
EXTENDS Integers, Sequences, FiniteSets, TLC

\* ------------------------------------------------------------------ bounds
MaxFrames == 2      \* complete frames in one upstream body
MaxClock  == 1      \* largest value Date.now() takes
MaxFramesShort == 1 \* complete frames in one upstream body, where two parties read
MaxHistory == 30    \* messages a conversation holds before the request

\* ------------------------------------------------------- program constants
SYS_PROMPT == "SYS_PROMPT"
HistoryLimit == 1000
Last30 == 30
TitleMax == 48

\* -------------------------------------------------------- sequence helpers
Min(S) == CHOOSE m \in S : \A k \in S : m <= k

Drop(s, k) == SubSeq(s, k + 1, Len(s))

\* String.prototype.split(sep) for a non-empty separator
RECURSIVE split(_, _)
split(s, sep) ==
  LET m == Len(sep)
      hits == {i \in 1..(Len(s) - m + 1) : SubSeq(s, i, i + m - 1) = sep}
  IN  IF hits = {} THEN <<s>>
      ELSE LET i == Min(hits)
           IN  <<SubSeq(s, 1, i - 1)>> \o split(Drop(s, i + m - 1), sep)

\* String.prototype.trim()
IsSpace(c) == c \in {"s", "n"}

RECURSIVE trimStart(_)
trimStart(s) == IF s # <<>> /\ IsSpace(s[1]) THEN trimStart(Tail(s)) ELSE s

RECURSIVE trimEnd(_)
trimEnd(s) ==
  IF s # <<>> /\ IsSpace(s[Len(s)]) THEN trimEnd(SubSeq(s, 1, Len(s) - 1)) ELSE s

trim(s) == trimEnd(trimStart(s))

\* String.prototype.slice(0, k)
slice0(s, k) == SubSeq(s, 1, IF Len(s) < k THEN Len(s) ELSE k)

\* mutant: slice(0, k) in the place of slice(-k)
sliceLast_first(s, k) == slice0(s, k)

\* Array.prototype.slice(-k)
sliceLast(s, k) == IF Len(s) <= k THEN s ELSE Drop(s, Len(s) - k)

\* new TextDecoder().decode(value): a fresh decoder per call, no stream flag,
\* so a sequence cut by the end of the chunk is flushed as U+FFFD and a
\* continuation byte without its lead byte is U+FFFD as well.
RECURSIVE decode(_)
decode(v) ==
  IF v = <<>> THEN <<>>
  ELSE IF v[1] = "L"
       THEN IF Len(v) >= 2 /\ v[2] = "C"
            THEN <<"E">> \o decode(Drop(v, 2))
            ELSE <<"R">> \o decode(Tail(v))
  ELSE IF v[1] = "C" THEN <<"R">> \o decode(Tail(v))
  ELSE <<v[1]>> \o decode(Tail(v))

\* JSON.parse(payload) followed by j?.choices?.[0]?.delta?.content:
\* ok = FALSE is the SyntaxError; content is the string found, <<>> when the
\* value has no such field.
StringChars == {"a", "s", "E", "R", "d", "D", "x"}

JSONparse(p) ==
  LET t == trim(p)
  IN  IF /\ Len(t) >= 2 /\ t[1] = "{" /\ t[Len(t)] = "}"
         /\ \A i \in 2..(Len(t) - 1) : t[i] \in StringChars
      THEN [ok |-> TRUE, stored |-> FALSE, content |-> SubSeq(t, 2, Len(t) - 1)]
      ELSE IF t = <<"S">>
      THEN [ok |-> TRUE, stored |-> TRUE, content |-> <<>>]
      ELSE [ok |-> FALSE, stored |-> FALSE, content |-> <<>>]

\* evt.split("\n").find((l) => l.startsWith("data:")); <<>> stands for
\* undefined (a line that starts with data: is never empty)
findDataLine(evt) ==
  LET lines == split(evt, <<"n">>)
      hits == {i \in 1..Len(lines) : lines[i] # <<>> /\ lines[i][1] = "d"}
  IN  IF hits = {} THEN <<>> ELSE lines[Min(hits)]

\* line.replace(/^data:\s?/, "")
stripData(line) ==
  IF Len(line) >= 2 /\ IsSpace(line[2]) THEN Drop(line, 2) ELSE Drop(line, 1)

\* mutant: the loop has no check for the [DONE] payload
parserInput_noSentinel(evt) ==
  LET line == findDataLine(evt)
  IN  IF line = <<>> THEN {} ELSE {stripData(line)}

\* the body of `for (const evt of events)` up to its try: the payload it
\* hands to JSON.parse, as a set that is empty when a `continue` is taken first
parserInput(evt) ==
  LET line == findDataLine(evt)
      payload == stripData(line)
  IN  IF line = <<>> THEN {}
      ELSE IF payload = <<"D">> THEN {}
      ELSE {payload}

\* mutant: a payload that JSON.parse rejects is appended as it is
captureDelta_keepsBadPayload(evt) ==
  LET toParse == parserInput(evt)
  IN  IF toParse = {} THEN <<>>
      ELSE LET p == CHOOSE q \in toParse : TRUE
               j == JSONparse(p)
           IN  IF j.ok THEN j.content ELSE p

\* the body of `for (const evt of events)` in pull: the text one frame adds
\* to `assistant`
captureDelta(evt) ==
  LET toParse == parserInput(evt)
  IN  IF toParse = {} THEN <<>>
      ELSE LET j == JSONparse(CHOOSE p \in toParse : TRUE)
           IN  IF j.ok THEN j.content ELSE <<>>

\* mutant: the deltas of the frames of one chunk are appended last to first
RECURSIVE captureAll_reversed(_)
captureAll_reversed(events) ==
  IF events = <<>> THEN <<>>
  ELSE captureAll_reversed(Tail(events)) \o captureDelta(Head(events))

\* the for loop over events: the deltas it appends to assistant
RECURSIVE captureAll(_)
captureAll(events) ==
  IF events = <<>> THEN <<>>
  ELSE captureDelta(Head(events)) \o captureAll(Tail(events))

\* the capture half of pull for one chunk: the new [buffer, assistant]
capture(buf, asst, value) ==
  LET b == buf \o decode(value)
      events == split(b, <<"n", "n">>)
      k == Len(events)
  IN  [buffer |-> events[k],
       events |-> SubSeq(events, 1, k - 1),
       assistant |-> asst \o captureAll(SubSeq(events, 1, k - 1))]

\* encoder.encode(`data: {"__stored": true}\n\n`)
StoredFrame == <<"d", "s", "S", "n", "n">>

\* mutant: the relay forwards the decoded text of the chunk, not its bytes
enqueue_decoded(q, value) == q \o decode(value)

\* controller.enqueue(value): the queue of streamOut after it
enqueue(q, value) == q \o value

\* mutant: if (assistant), without trim
hasText_noTrim(asst) == asst # <<>>

\* if (assistant.trim())
hasText(asst) == trim(asst) # <<>>


\* JSON.parse(text) followed by json?.choices?.[0]?.message?.content for a
\* non-streaming body.  "M" is `{"choices":[{"message":{"content":"`, "j" is
\* a JSON value without that field.
JSONparseMessage(text) ==
  LET t == trim(text)
  IN  IF /\ Len(t) >= 2 /\ t[1] = "M" /\ t[Len(t)] = "}"
         /\ \A i \in 2..(Len(t) - 1) : t[i] \in StringChars
      THEN [ok |-> TRUE, content |-> SubSeq(t, 2, Len(t) - 1)]
      ELSE IF t = <<"j">> THEN [ok |-> TRUE, content |-> <<>>]
      ELSE [ok |-> FALSE, content |-> <<>>]

\* ------------------------------------------------------------ input domains
NULL == <<"NULL">>          \* SQL NULL / JS null, distinct from every text

\* request bodies: json = FALSE is a body request.json() rejects; a field
\* of kind "absent" is undefined or null, kind "num" is a JSON number
Bodies ==
  [json : {TRUE},
   chat_id : {"undefined", "", "c1", "c9"},
   content : {[kind |-> "absent", val |-> <<>>],
              [kind |-> "str", val |-> <<>>],
              [kind |-> "str", val |-> <<"s">>],
              [kind |-> "str", val |-> <<"s", "a", "s">>],
              [kind |-> "num", val |-> <<>>]},
   stream : {"undefined", "true", "false"}]
  \cup {[json |-> FALSE, chat_id |-> "undefined",
         content |-> [kind |-> "absent", val |-> <<>>], stream |-> "true"]}

\* complete (blank-line-terminated) upstream frames; delta is the content
\* delta the frame carries
FrameCat ==
  << [bytes |-> <<"d", "s", "{", "a", "}", "n", "n">>,       delta |-> <<"a">>, kind |-> "delta"],
     [bytes |-> <<"d", "s", "{", "L", "C", "}", "n", "n">>,  delta |-> <<"E">>, kind |-> "delta"],
     [bytes |-> <<"d", "{", "s", "}", "n", "n">>,            delta |-> <<"s">>, kind |-> "delta"],
     [bytes |-> <<"x", "n", "d", "s", "D", "n", "n">>,       delta |-> <<>>,    kind |-> "done"],
     [bytes |-> <<"d", "s", "x", "n", "n">>,                 delta |-> <<>>,    kind |-> "badjson"],
     [bytes |-> <<"x", "n", "n">>,                           delta |-> <<>>,    kind |-> "nodata"] >>

FrameIds == 1..Len(FrameCat)

\* what may follow the last complete frame: nothing, or a frame whose
\* blank line never arrives
Tails == { <<>>, <<"d", "s", "{", "a", "}">> }

FrameSeqs == UNION {[1..k -> FrameIds] : k \in 0..MaxFrames}

RECURSIVE frameBytes(_)
frameBytes(fs) ==
  IF fs = <<>> THEN <<>> ELSE FrameCat[Head(fs)].bytes \o frameBytes(Tail(fs))

RECURSIVE frameDeltas(_)
frameDeltas(fs) ==
  IF fs = <<>> THEN <<>> ELSE FrameCat[Head(fs)].delta \o frameDeltas(Tail(fs))

\* bodies of a non-streaming or failed upstream response
Texts == { <<"x">>, <<"j">>, <<"M", "}">>, <<"M", "a", "}">>,
           <<"M", "s", "}">>, <<"s", "M", "a", "s", "}", "n">> }

NoRes == [status |-> 0, ok |-> FALSE, body |-> "none",
          text |-> <<>>, frames |-> <<>>, tail |-> <<>>]

\* upstream responses to a request with the given stream flag
UpstreamResponses(strm) ==
  IF strm
  THEN {[status |-> 200, ok |-> TRUE, body |-> "sse", text |-> <<>>,
         frames |-> fs, tail |-> tl] : fs \in FrameSeqs, tl \in Tails}
       \cup {[status |-> st, ok |-> FALSE, body |-> "text", text |-> tx,
              frames |-> <<>>, tail |-> <<>>] : st \in {401, 500}, tx \in {<<"x">>, <<"j">>}}
       \cup {[status |-> 304, ok |-> FALSE, body |-> "null", text |-> <<>>,
              frames |-> <<>>, tail |-> <<>>]}
  ELSE {[status |-> st, ok |-> (st = 200), body |-> "text", text |-> tx,
         frames |-> <<>>, tail |-> <<>>] : st \in {200, 500}, tx \in Texts}

\* the bytes of an upstream event stream
upstreamBytes(r) == frameBytes(r.frames) \o r.tail

\* -------------------------------------------------------------------- state
VARIABLES
  chats,       \* table chats: id -> title
  messages,    \* table messages, in insertion (rowid) order
  now,         \* Date.now()
  pc,          \* where routeChat is
  body,        \* the request body routeChat received
  chatId, content, stream, apiKey,   \* routeChat's locals
  payload,     \* the request sent upstream
  dsRes,       \* the upstream response
  pos,         \* upstream bytes read so far
  buffer, assistant,   \* the capture state of streamOut
  out,         \* bytes enqueued to streamOut
  streamOut,   \* "none", "readable", "closed", "errored"
  res,         \* the response routeChat returned
  log,         \* the side effects of this routeChat call, in order
  pcDel,       \* where routeDeleteChat is
  received,    \* history: the text pull has decoded so far, chunk after chunk
  events,      \* pull's local events after the pop: the frames its chunk completed
  page,        \* the chat page: onSend's locals and the page's globals
  pair         \* two chat-send requests in flight at once

store == <<chats, messages, now>>
locals == <<body, chatId, content, stream, apiKey>>
tee == <<pos, buffer, assistant, received, events, out, streamOut>>
others == <<page, pair>>
vars == <<chats, messages, now, pc, body, chatId, content, stream, apiKey,
          payload, dsRes, pos, buffer, assistant, out, streamOut, res, log, pcDel,
          received, events, page, pair>>

NoResponse == [status |-> 0, kind |-> "none", msg |-> "", text |-> <<>>]
NoPayload == [sent |-> FALSE, messages |-> <<>>, stream |-> FALSE]

\* badJSON(status, { error: { message } })
badJSON(status, message) ==
  [status |-> status, kind |-> "error", msg |-> message, text |-> <<>>]

\* an exception that leaves the fetch handler
uncaught(message) ==
  [status |-> 500, kind |-> "exception", msg |-> message, text |-> <<>>]

\* the page before a send: chatId is the conversation boot() created, the
\* globals and onSend's locals have their initial values; sentTo is the
\* chat_id of the request body of the last send, finished counts the runs of
\* onSend's finally block, history is what the older page has pushed to its
\* history array.  loadId is the argument of onSend's call of loadChat,
\* timerIds holds, for each timer that is set, the chat_id its send posted,
\* and refetches the pairs (chat_id posted, id re-fetched) of the re-fetches
\* made so far.  ui is where the handler of a new-chat or chat-list click
\* is, target the id it works on, list the ids shown in the chat list and
\* clicks the number of such clicks; replaced counts the chats that the
\* running call of public/chat.js's loadChat has created
NoError == [kind |-> "none", status |-> 0, body |-> NoResponse]
IdlePage ==
  [pc |-> "idle", chatId |-> "c1", sending |-> FALSE, disabled |-> FALSE,
   text |-> <<>>, bubbles |-> 0, bubble |-> <<>>, error |-> NoError, looped |-> FALSE,
   full |-> <<>>, stored |-> FALSE, cpos |-> 0, pend |-> <<>>, buffer |-> <<>>,
   decoded |-> <<>>, renders |-> <<>>, loads |-> 0, timers |-> 0, delayed |-> 0,
   swallowed |-> 0, sentTo |-> "none", finished |-> 0, history |-> <<>>,
   loadId |-> "none", timerIds |-> <<>>, refetches |-> {},
   ui |-> "none", target |-> "none", list |-> {"c1"}, clicks |-> 0, replaced |-> 0]

\* no second request
NoPair ==
  [r \in 1..2 |-> [pc |-> "idle", chatId |-> "c1", frames |-> <<>>, pos |-> 0,
                   buffer |-> <<>>, assistant |-> <<>>, inserted |-> <<>>]]

Init ==
  /\ chats = [c \in {"c1"} |-> NULL]
  /\ messages = <<>>
  /\ now = 0
  /\ pc = "start"
  /\ body = CHOOSE b \in Bodies : ~b.json
  /\ chatId = "undefined" /\ content = <<>> /\ stream = TRUE /\ apiKey = ""
  /\ payload = NoPayload
  /\ dsRes = NoRes
  /\ pos = 0 /\ buffer = <<>> /\ assistant = <<>> /\ out = <<>>
  /\ received = <<>> /\ events = <<>>
  /\ streamOut = "none"
  /\ res = NoResponse
  /\ log = <<>>
  /\ pcDel = "idle"
  /\ page = IdlePage
  /\ pair = NoPair

\* ---------------------------------------------------------------- D1 helpers
\* mutant: the existence check always passes
chatExists_always(id) == TRUE

\* chatExists
chatExists(id) == id \in DOMAIN chats

\* insertMessage: the row it adds and the clock value it reads
insertMessage(id, role, text, t) ==
  Append(messages, [chat_id |-> id, role |-> role, content |-> text, created_at |-> t])

\* Date.now() never goes back; two calls may see the same millisecond
Clock == {t \in now..(now + 1) : t <= MaxClock}

\* ORDER BY created_at ASC over the rows I: every order of them in which
\* created_at never decreases
RECURSIVE ascending(_)
ascending(I) ==
  IF I = {} THEN {<<>>}
  ELSE LET first == {i \in I : \A j \in I : messages[i].created_at <= messages[j].created_at}
       IN  UNION {{<<i>> \o f : f \in ascending(I \ {i})} : i \in first}

\* getMessages: every row order the ORDER BY created_at ASC LIMIT query may
\* return (rows with equal created_at come in an order SQL does not fix)
getMessages(id, limit) ==
  LET I == {i \in 1..Len(messages) : messages[i].chat_id = id}
      n == Cardinality(I)
  IN  {[k \in 1..(IF n < limit THEN n ELSE limit) |->
          [role |-> messages[f[k]].role, content |-> messages[f[k]].content,
           created_at |-> messages[f[k]].created_at]] : f \in ascending(I)}

\* updateChatTitleIfEmpty: the chats table after the UPDATE
updateChatTitleIfEmpty(id, fromText) ==
  LET title == slice0(trim(fromText), TitleMax)
  IN  [c \in DOMAIN chats |->
         IF c = id /\ chats[c] \in {NULL, <<>>} THEN title ELSE chats[c]]


\* ------------------------------------------------------------------ routeChat
\* routeChat from its entry to the first database query: request.json(),
\* the three locals and the two field checks
routeChat_request(b) ==
  /\ pc = "start"
  /\ body' = b
  /\ IF ~b.json
     THEN /\ res' = badJSON(400, "Invalid JSON body")
          /\ pc' = "returned"
          /\ UNCHANGED <<chatId, content, stream>>
     ELSE IF b.content.kind = "num"
     THEN \* (body?.content ?? "").trim() on a value that has no trim
          /\ res' = uncaught("TypeError")
          /\ pc' = "returned"
          /\ chatId' = b.chat_id
          /\ UNCHANGED <<content, stream>>
     ELSE /\ chatId' = b.chat_id
          /\ content' = trim(b.content.val)
          /\ stream' = (b.stream # "false")
          /\ IF b.chat_id \in {"undefined", ""}
             THEN res' = badJSON(400, "chat_id is required") /\ pc' = "returned"
             ELSE IF trim(b.content.val) = <<>>
             THEN res' = badJSON(400, "content is required") /\ pc' = "returned"
             ELSE res' = res /\ pc' = "chatExists"
  /\ UNCHANGED <<store, apiKey, payload, dsRes, tee, log, pcDel, others>>

\* a chat-send request with any body
routeChat_validate == \E b \in Bodies : routeChat_request(b)

\* if (!(await chatExists(env, chatId))) return 404
routeChat_chatExists ==
  /\ pc = "chatExists"
  /\ IF chatExists(chatId)
     THEN pc' = "insertUser" /\ res' = res
     ELSE pc' = "returned" /\ res' = badJSON(404, "Chat not found")
  /\ UNCHANGED <<store, locals, payload, dsRes, tee, log, pcDel, others>>

\* await insertMessage(env, chatId, "user", content)
routeChat_insertUser ==
  /\ pc = "insertUser"
  /\ \E t \in Clock :
       /\ now' = t
       /\ messages' = insertMessage(chatId, "user", content, t)
  /\ log' = Append(log, "userInsert")
  /\ pc' = "updateTitle"
  /\ UNCHANGED <<chats, locals, payload, dsRes, tee, res, pcDel, others>>

\* await updateChatTitleIfEmpty(env, chatId, content)
routeChat_updateTitle ==
  /\ pc = "updateTitle"
  /\ chats' = updateChatTitleIfEmpty(chatId, content)
  /\ log' = IF chats' # chats THEN Append(log, "titleUpdate") ELSE log
  /\ pc' = "getMessages"
  /\ UNCHANGED <<messages, now, locals, payload, dsRes, tee, res, pcDel, others>>

\* the API key: the Authorization header without its Bearer prefix, else
\* env.DEEPSEEK_API_KEY; "" is a header or a key that is not there
pickApiKey(header, envKey) == IF header # "" THEN header ELSE envKey

Keys == {"", "k"}

\* history, last30, finalMessages, the API key check and the call of fetch
routeChat_fetch ==
  /\ pc = "getMessages"
  /\ \E history \in getMessages(chatId, HistoryLimit), header \in Keys, envKey \in Keys :
       LET last30 == sliceLast(history, Last30)
           finalMessages == <<[role |-> "system", content |-> <<SYS_PROMPT>>]>> \o last30
       IN  /\ apiKey' = pickApiKey(header, envKey)
           /\ IF apiKey' = ""
              THEN /\ res' = badJSON(401, "Missing DEEPSEEK_API_KEY")
                   /\ pc' = "returned"
                   /\ UNCHANGED <<payload, log>>
              ELSE /\ payload' = [sent |-> TRUE, messages |-> finalMessages, stream |-> stream]
                   /\ log' = Append(log, "fetch")
                   /\ pc' = "fetch"
                   /\ res' = res
  /\ UNCHANGED <<store, body, chatId, content, stream, dsRes, tee, pcDel, others>>

\* the upstream API answers: dsRes
upstream_respond ==
  /\ pc = "fetch"
  /\ \E r \in UpstreamResponses(stream) : dsRes' = r
  /\ pc' = "dsRes"
  /\ UNCHANGED <<store, locals, payload, tee, res, log, pcDel, others>>

\* mutant: the reply is stored only when the upstream status is a success
routeChat_text_okOnly ==
  /\ pc = "dsRes" /\ ~stream
  /\ LET json == JSONparseMessage(dsRes.text)
     IN  IF json.ok /\ json.content # <<>> /\ dsRes.ok
         THEN pc' = "insertNonStream" /\ res' = res
         ELSE /\ pc' = "returned"
              /\ res' = [status |-> dsRes.status, kind |-> "text", msg |-> "", text |-> dsRes.text]
  /\ log' = Append(log, "upstreamEnd")
  /\ UNCHANGED <<store, locals, payload, dsRes, tee, pcDel, others>>

\* if (!stream): text, JSON.parse, msg
routeChat_text ==
  /\ pc = "dsRes" /\ ~stream
  /\ LET json == JSONparseMessage(dsRes.text)
     IN  IF json.ok /\ json.content # <<>>
         THEN pc' = "insertNonStream" /\ res' = res
         ELSE /\ pc' = "returned"
              /\ res' = [status |-> dsRes.status, kind |-> "text", msg |-> "", text |-> dsRes.text]
  /\ log' = Append(log, "upstreamEnd")
  /\ UNCHANGED <<store, locals, payload, dsRes, tee, pcDel, others>>

\* if (msg) await insertMessage(env, chatId, "assistant", msg); return
routeChat_insertNonStream ==
  /\ pc = "insertNonStream"
  /\ \E t \in Clock :
       /\ now' = t
       /\ messages' = insertMessage(chatId, "assistant", JSONparseMessage(dsRes.text).content, t)
  /\ log' = Append(log, "assistantInsert")
  /\ res' = [status |-> dsRes.status, kind |-> "text", msg |-> "", text |-> dsRes.text]
  /\ pc' = "returned"
  /\ UNCHANGED <<chats, locals, payload, dsRes, tee, pcDel, others>>

\* streaming: the verbatim error return, dsRes.body!.getReader() and the
\* return of the streaming Response
routeChat_stream ==
  /\ pc = "dsRes" /\ stream
  /\ IF ~dsRes.ok /\ dsRes.body # "null"
     THEN /\ res' = [status |-> dsRes.status, kind |-> "text", msg |-> "", text |-> dsRes.text]
          /\ log' = Append(log, "upstreamEnd")
          /\ pc' = "returned"
          /\ UNCHANGED streamOut
     ELSE IF dsRes.body = "null"
     THEN /\ res' = uncaught("TypeError")
          /\ pc' = "returned"
          /\ UNCHANGED <<streamOut, log>>
     ELSE /\ res' = [status |-> 200, kind |-> "stream", msg |-> "", text |-> <<>>]
          /\ streamOut' = "readable"
          /\ pc' = "pull"
          /\ log' = log
  /\ UNCHANGED <<store, locals, payload, dsRes, pos, buffer, assistant, received, events, out, pcDel, others>>

\* the stream calls pull, which calls reader.read()
pull_read ==
  /\ pc = "pull"
  /\ streamOut = "readable"
  /\ pc' = "read"
  /\ events' = <<>>
  /\ UNCHANGED <<store, locals, payload, dsRes, pos, buffer, assistant, received,
                 out, streamOut, res, log, pcDel, others>>

\* mutant: the text captured so far is saved after every chunk
pull_chunk_persists ==
  /\ pc = "read"
  /\ LET bytes == upstreamBytes(dsRes)
     IN  \E k \in 1..(Len(bytes) - pos) :
           LET value == SubSeq(bytes, pos + 1, pos + k)
               c == capture(buffer, assistant, value)
           IN  /\ out' = enqueue(out, value)
               /\ buffer' = c.buffer
               /\ assistant' = c.assistant
               /\ pos' = pos + k
               /\ received' = received \o decode(value)
               /\ events' = c.events
               /\ messages' = IF hasText(c.assistant)
                               THEN insertMessage(chatId, "assistant", c.assistant, now)
                               ELSE messages
  /\ pc' = "pull"
  /\ UNCHANGED <<chats, now, locals, payload, dsRes, streamOut, res, log, pcDel, others>>

\* read() yields a chunk: enqueue it, then capture. controller.enqueue throws
\* a TypeError when the stream is no longer readable (the caller cancelled
\* it), and pull ends there.
pull_chunk ==
  /\ pc = "read"
  /\ LET bytes == upstreamBytes(dsRes)
     IN  \E k \in 1..(Len(bytes) - pos) :
           LET value == SubSeq(bytes, pos + 1, pos + k)
               c == capture(buffer, assistant, value)
           IN  /\ pos' = pos + k
               /\ IF streamOut = "readable"
                  THEN /\ out' = enqueue(out, value)
                       /\ buffer' = c.buffer
                       /\ assistant' = c.assistant
                       /\ received' = received \o decode(value)
                       /\ events' = c.events
                       /\ pc' = "pull"
                  ELSE /\ pc' = "done"
                       /\ UNCHANGED <<out, buffer, assistant, received, events>>
  /\ UNCHANGED <<store, locals, payload, dsRes, streamOut, res, log, pcDel, others>>

\* enqueue of the stored frame and close; the enqueue throws when the stream
\* is no longer readable
storedAndClose ==
  IF streamOut = "readable"
  THEN /\ out' = enqueue(out, StoredFrame)
       /\ streamOut' = "closed"
       /\ pc' = "done"
  ELSE /\ pc' = "done"
       /\ UNCHANGED <<out, streamOut>>

\* what storedAndClose adds to the log
storedAndCloseLog == IF streamOut = "readable" THEN <<"stored", "close">> ELSE <<>>

\* mutant: close first and store afterwards, without the stored frame
pull_done_closeFirst ==
  /\ pc = "read"
  /\ pos = Len(upstreamBytes(dsRes))
  /\ streamOut' = "closed"
  /\ pc' = IF hasText(assistant) THEN "insertAssistant" ELSE "done"
  /\ log' = log \o <<"upstreamEnd", "close">>
  /\ UNCHANGED <<store, locals, payload, dsRes, pos, buffer, assistant, received, events, out, res, pcDel, others>>

\* read() yields done
pull_done ==
  /\ pc = "read"
  /\ pos = Len(upstreamBytes(dsRes))
  /\ IF hasText(assistant)
     THEN /\ pc' = "insertAssistant"
          /\ log' = Append(log, "upstreamEnd")
          /\ UNCHANGED <<out, streamOut>>
     ELSE /\ storedAndClose
          /\ log' = log \o <<"upstreamEnd">> \o storedAndCloseLog
  /\ UNCHANGED <<store, locals, payload, dsRes, pos, buffer, assistant, received, events, res, pcDel, others>>

\* mutant: what is left in the buffer is parsed as a last frame before the insert
pull_insertAssistant_flush ==
  /\ pc = "insertAssistant"
  /\ \E t \in Clock :
       /\ now' = t
       /\ messages' = insertMessage(chatId, "assistant", assistant \o captureDelta(buffer), t)
  /\ storedAndClose
  /\ log' = log \o <<"assistantInsert">> \o storedAndCloseLog
  /\ UNCHANGED <<chats, locals, payload, dsRes, pos, buffer, assistant, received, events, res, pcDel, others>>

\* await insertMessage(env, chatId, "assistant", assistant), then the stored
\* frame and close
pull_insertAssistant ==
  /\ pc = "insertAssistant"
  /\ \E t \in Clock :
       /\ now' = t
       /\ messages' = insertMessage(chatId, "assistant", assistant, t)
  /\ storedAndClose
  /\ log' = log \o <<"assistantInsert">> \o storedAndCloseLog
  /\ UNCHANGED <<chats, locals, payload, dsRes, pos, buffer, assistant, received, events, res, pcDel, others>>

\* read() rejects (the upstream connection fails): pull throws, and the
\* stream is errored
pull_readFails ==
  /\ pc = "read"
  /\ streamOut' = "errored"
  /\ log' = Append(log, "readError")
  /\ pc' = "done"
  /\ UNCHANGED <<store, locals, payload, dsRes, pos, buffer, assistant, received, events, out, res, pcDel, others>>

\* ------------------------------------------------------------ routeDeleteChat
\* if (!(await chatExists(env, chatId))) return 404, for chat c1
routeDeleteChat_chatExists ==
  /\ pcDel = "idle"
  /\ pcDel' = IF chatExists("c1") THEN "deleteMessages" ELSE "notFound"
  /\ UNCHANGED <<store, pc, locals, payload, dsRes, tee, res, log, others>>

\* deleteChat, first statement
deleteChat_messages ==
  /\ pcDel = "deleteMessages"
  /\ messages' = SelectSeq(messages, LAMBDA m : m.chat_id # "c1")
  /\ pcDel' = "deleteChat"
  /\ UNCHANGED <<chats, now, pc, locals, payload, dsRes, tee, res, log, others>>

\* deleteChat, second statement
deleteChat_chat ==
  /\ pcDel = "deleteChat"
  /\ chats' = [c \in DOMAIN chats \ {"c1"} |-> chats[c]]
  /\ pcDel' = "deleted"
  /\ UNCHANGED <<messages, now, pc, locals, payload, dsRes, tee, res, log, others>>

Next ==
  \/ routeChat_validate
  \/ routeChat_chatExists
  \/ routeChat_insertUser
  \/ routeChat_updateTitle
  \/ routeChat_fetch
  \/ upstream_respond
  \/ routeChat_text
  \/ routeChat_insertNonStream
  \/ routeChat_stream
  \/ pull_read
  \/ pull_chunk
  \/ pull_done
  \/ pull_insertAssistant
  \/ pull_readFails

\* one chat-send request
Spec == Init /\ [][Next]_vars

\* the caller disconnects: the runtime cancels streamOut, which has no
\* cancel callback; a cancelled stream calls pull no more
caller_cancel ==
  /\ streamOut = "readable"
  /\ streamOut' = "cancelled"
  /\ UNCHANGED <<store, pc, locals, payload, dsRes, pos, buffer, assistant, received,
                 events, out, res, log, pcDel, others>>

\* upstream answers to a streaming request, with fewer frames of fewer
\* kinds and more ends: a last frame that has one of its two line feeds, and
\* a third line feed after the last blank line
ShortTails == Tails \cup { <<"d", "s", "{", "a", "}", "n">>, <<"n">> }

ShortFrameSeqs == UNION {[1..k -> {1, 2, 4, 5}] : k \in 0..MaxFramesShort}

ShortResponses ==
  {[status |-> 200, ok |-> TRUE, body |-> "sse", text |-> <<>>, frames |-> fs, tail |-> tl] :
     fs \in ShortFrameSeqs, tl \in ShortTails}
  \cup {r \in UpstreamResponses(TRUE) : ~r.ok}

upstream_respond_short ==
  /\ pc = "fetch" /\ stream
  /\ \E r \in ShortResponses : dsRes' = r
  /\ pc' = "dsRes"
  /\ UNCHANGED <<store, locals, payload, tee, res, log, pcDel, others>>

\* one streaming chat-send request whose caller may disconnect
NextCancel ==
  \/ routeChat_validate
  \/ routeChat_chatExists
  \/ routeChat_insertUser
  \/ routeChat_updateTitle
  \/ routeChat_fetch
  \/ upstream_respond_short
  \/ routeChat_stream
  \/ pull_read
  \/ pull_chunk
  \/ pull_done
  \/ pull_insertAssistant
  \/ pull_readFails
  \/ caller_cancel

SpecCancel == Init /\ [][NextCancel]_vars

\* ------------------------------------------------- two requests in flight
\* Two streaming requests, each with its own closure of routeChat: chatId,
\* the upstream body, and the buffer and assistant of its streamOut. Both
\* have passed the user insert and wait for the upstream answer.
PairFrameSeqs == UNION {[1..k -> {1, 2}] : k \in 0..MaxFramesShort}

InitPair ==
  /\ chats = [c \in {"c1", "c2"} |-> <<"a">>]
  /\ \E c \in {"c1", "c2"} :
       /\ messages = <<[chat_id |-> "c1", role |-> "user", content |-> <<"a">>, created_at |-> 0],
                       [chat_id |-> c, role |-> "user", content |-> <<"a">>, created_at |-> 0]>>
       /\ pair = [r \in 1..2 |->
                   [pc |-> "fetch", chatId |-> IF r = 1 THEN "c1" ELSE c, frames |-> <<>>,
                    pos |-> 0, buffer |-> <<>>, assistant |-> <<>>, inserted |-> <<>>]]
  /\ now = 0
  /\ pc = "start"
  /\ body = CHOOSE b \in Bodies : ~b.json
  /\ chatId = "undefined" /\ content = <<>> /\ stream = TRUE /\ apiKey = ""
  /\ payload = NoPayload
  /\ dsRes = NoRes
  /\ pos = 0 /\ buffer = <<>> /\ assistant = <<>> /\ out = <<>>
  /\ received = <<>> /\ events = <<>>
  /\ streamOut = "none"
  /\ res = NoResponse
  /\ log = <<>>
  /\ pcDel = "idle"
  /\ page = IdlePage

onlyPair == <<chats, pc, locals, payload, dsRes, tee, res, log, pcDel, page>>

\* the upstream answers request r with a stream
pair_respond(r) ==
  /\ pair[r].pc = "fetch"
  /\ \E fs \in PairFrameSeqs :
       pair' = [pair EXCEPT ![r].frames = fs, ![r].pc = "pull"]
  /\ UNCHANGED <<messages, now, onlyPair>>

\* pull of request r gets a chunk
pair_chunk(r) ==
  /\ pair[r].pc = "pull"
  /\ LET bytes == frameBytes(pair[r].frames)
     IN  \E k \in 1..(Len(bytes) - pair[r].pos) :
           LET value == SubSeq(bytes, pair[r].pos + 1, pair[r].pos + k)
               c == capture(pair[r].buffer, pair[r].assistant, value)
           IN  pair' = [pair EXCEPT ![r].pos = @ + k, ![r].buffer = c.buffer,
                                    ![r].assistant = c.assistant]
  /\ UNCHANGED <<messages, now, onlyPair>>

\* pull of request r gets done
pair_done(r) ==
  /\ pair[r].pc = "pull"
  /\ pair[r].pos = Len(frameBytes(pair[r].frames))
  /\ IF hasText(pair[r].assistant)
     THEN \E t \in Clock :
            /\ now' = t
            /\ messages' = insertMessage(pair[r].chatId, "assistant", pair[r].assistant, t)
            /\ pair' = [pair EXCEPT ![r].inserted = <<pair[r].assistant>>, ![r].pc = "done"]
     ELSE /\ pair' = [pair EXCEPT ![r].pc = "done"]
          /\ UNCHANGED <<messages, now>>
  /\ UNCHANGED onlyPair

NextPair ==
  \E r \in 1..2 :
    \/ pair_respond(r)
    \/ pair_chunk(r)
    \/ pair_done(r)

SpecPair == InitPair /\ [][NextPair]_vars

\* ------------------------------------------------------------ the chat page
\* routeGetChat: the answers GET /api/chats/:id may give
routeGetChat(id) ==
  IF chatExists(id)
  THEN {[status |-> 200, messages |-> h] : h \in getMessages(id, HistoryLimit)}
  ELSE {[status |-> 404, messages |-> <<>>]}

\* dec.decode(value, { stream: true }): the bytes of a character that the
\* chunk leaves incomplete are kept in the decoder for the next call
RECURSIVE decodeStream(_)
decodeStream(v) ==
  IF v = <<>> THEN [text |-> <<>>, pend |-> <<>>]
  ELSE IF v = <<"L">> THEN [text |-> <<>>, pend |-> <<"L">>]
  ELSE IF v[1] = "L" /\ v[2] = "C"
       THEN LET d == decodeStream(Drop(v, 2)) IN [text |-> <<"E">> \o d.text, pend |-> d.pend]
  ELSE LET d == decodeStream(Tail(v))
       IN  [text |-> <<IF v[1] \in {"L", "C"} THEN "R" ELSE v[1]>> \o d.text, pend |-> d.pend]

\* mutant: [DONE] is taken for the stored frame as well
isStored_done(evt) ==
  LET line == findDataLine(evt)
      data == stripData(line)
  IN  /\ line # <<>>
      /\ data = <<"D">> \/ (JSONparse(data).ok /\ JSONparse(data).stored)

\* j && j.__stored for one frame of the page's loop
isStored(evt) ==
  LET line == findDataLine(evt)
      data == stripData(line)
  IN  /\ line # <<>>
      /\ data # <<"D">>
      /\ JSONparse(data).ok
      /\ JSONparse(data).stored

\* mutant: the text of the node is set, not extended
appendText_replace(node, chunk) == chunk

\* appendText: node.textContent += chunk
appendText(node, chunk) == node \o chunk

\* mutant: the part of the buffer left by the chunk before is dropped
consume_noCarry(p, value) ==
  LET d == decodeStream(p.pend \o value)
      parts == split(d.text, <<"n", "n">>)
      k == Len(parts)
      evts == SubSeq(parts, 1, k - 1)
  IN  [p EXCEPT !.cpos = @ + Len(value), !.pend = d.pend, !.decoded = @ \o d.text,
                !.buffer = parts[k],
                !.full = @ \o captureAll(evts), !.bubble = appendText(@, captureAll(evts)),
                !.stored = @ \/ \E i \in 1..Len(evts) : isStored(evts[i])]

\* the body of the read loop for one chunk: decode, split, pop, and the for
\* loop over the frames (a stored frame has no delta)
consume(p, value) ==
  LET d == decodeStream(p.pend \o value)
      parts == split(p.buffer \o d.text, <<"n", "n">>)
      k == Len(parts)
      evts == SubSeq(parts, 1, k - 1)
  IN  [p EXCEPT !.cpos = @ + Len(value), !.pend = d.pend, !.decoded = @ \o d.text,
                !.buffer = parts[k],
                !.full = @ \o captureAll(evts), !.bubble = appendText(@, captureAll(evts)),
                !.stored = @ \/ \E i \in 1..Len(evts) : isStored(evts[i])]

\* what the user has typed
Inputs == { <<"s">>, <<"s", "a", "s">> }

\* catch (e): the error marker with e.message
networkError(message) ==
  [kind |-> "network", status |-> 0, body |-> uncaught(message)]

\* catch (e): the network error text is appended to the assistant bubble
catchError(p, message) ==
  [p EXCEPT !.error = networkError(message), !.bubble = appendText(@, <<"!">>)]

\* finally: the input is enabled again and sending is false; onSend is
\* over, and its reader, decoder and buffer are gone
finally(p) ==
  [p EXCEPT !.disabled = FALSE, !.sending = FALSE, !.pc = "idle",
            !.cpos = 0, !.pend = <<>>, !.buffer = <<>>, !.decoded = <<>>,
            !.finished = @ + 1]

relay == <<store, locals, payload, dsRes, tee, res, log, pcDel>>

\* onSend up to the call of fetch
page_onSend ==
  /\ page.pc = "idle" /\ pc = "idle"
  /\ \E input \in Inputs :
       LET text == trim(input)
       IN  IF text = <<>> \/ page.sending \/ page.chatId = "null"
           THEN UNCHANGED <<page, pc>>
           ELSE /\ page' = [page EXCEPT !.sending = TRUE, !.disabled = TRUE, !.text = text,
                                        !.sentTo = page.chatId,
                                        !.bubbles = @ + 2, !.bubble = <<>>,
                                        !.full = <<>>, !.stored = FALSE, !.pc = "fetch"]
                /\ pc' = "start"
  /\ UNCHANGED <<relay, pair>>

\* the request reaches routeChat
routeChat_fromPage ==
  /\ page.pc # "idle"
  /\ routeChat_request([json |-> TRUE, chat_id |-> page.sentTo,
                        content |-> [kind |-> "str", val |-> page.text], stream |-> "true"])

\* fetch rejects: the request does not reach routeChat
page_fetchFails ==
  /\ page.pc = "fetch" /\ pc = "start"
  /\ page' = finally(catchError(page, "Failed to fetch"))
  /\ UNCHANGED <<relay, pc, pair>>

\* mutant: a failed request is followed by the delayed re-fetch as well
page_response_refetch ==
  /\ page.pc = "fetch"
  /\ res.kind # "none"
  /\ IF res.status \notin 200..299
     THEN page' = finally([page EXCEPT !.error = [kind |-> "status", status |-> res.status, body |-> res],
                                       !.bubble = appendText(@, <<"X">>),
                                       !.timers = @ + 1,
                                       !.timerIds = Append(@, page.sentTo)])
     ELSE /\ res.kind = "stream"
          /\ page' = [page EXCEPT !.pc = "read", !.looped = TRUE, !.cpos = 0,
                                   !.buffer = <<>>, !.pend = <<>>, !.decoded = <<>>]
  /\ UNCHANGED <<relay, pc, pair>>

\* fetch resolves: the error text and the return, or getReader()
page_response ==
  /\ page.pc = "fetch"
  /\ res.kind # "none"
  /\ IF res.status \notin 200..299
     THEN page' = finally([page EXCEPT !.error = [kind |-> "status", status |-> res.status, body |-> res],
                                       !.bubble = appendText(@, <<"X">>)])
     ELSE /\ res.kind = "stream"
          /\ page' = [page EXCEPT !.pc = "read", !.looped = TRUE, !.cpos = 0,
                                   !.buffer = <<>>, !.pend = <<>>, !.decoded = <<>>]
  /\ UNCHANGED <<relay, pc, pair>>

\* reader.read() yields a chunk: any part of the bytes that have arrived
page_read_chunk ==
  /\ page.pc = "read"
  /\ \E k \in 1..(Len(out) - page.cpos) :
       page' = consume(page, SubSeq(out, page.cpos + 1, page.cpos + k))
  /\ UNCHANGED <<relay, pc, pair>>

\* reader.read() yields done: the loop ends, and the page awaits loadChat
\* or sets the timer
page_read_done ==
  /\ page.pc = "read"
  /\ streamOut = "closed" /\ page.cpos = Len(out)
  /\ page' = IF page.stored
             THEN [page EXCEPT !.pc = "loadChat", !.loadId = page.chatId,
                               !.refetches = @ \cup {<<page.sentTo, page.chatId>>}]
             ELSE [page EXCEPT !.timers = @ + 1, !.timerIds = Append(@, page.sentTo),
                               !.pc = "refreshChats"]
  /\ UNCHANGED <<relay, pc, pair>>

\* reader.read() rejects: streamOut is errored, or the connection is lost,
\* which cancels streamOut at the relay
page_read_fails ==
  /\ page.pc = "read"
  /\ page' = finally(catchError(page, "network error"))
  /\ streamOut' = IF streamOut = "readable" THEN "cancelled" ELSE streamOut
  /\ UNCHANGED <<store, locals, payload, dsRes, pos, buffer, assistant, received, events,
                 out, res, log, pcDel, pc, pair>>

\* await loadChat(chatId): renderMessages, or the throw that onSend catches
page_loadChat ==
  /\ page.pc = "loadChat"
  /\ \/ \E r \in routeGetChat(page.loadId) :
          IF r.status = 200
          THEN page' = [page EXCEPT !.loads = @ + 1, !.renders = Append(@, r.messages),
                                    !.pc = "refreshChats"]
          ELSE page' = finally(catchError([page EXCEPT !.loads = @ + 1], "Failed to load chat"))
     \/ page' = finally(catchError([page EXCEPT !.loads = @ + 1], "Failed to fetch"))
  /\ UNCHANGED <<relay, pc, pair>>

\* await refreshChats(), which renders the chat list, then finally
page_refreshChats ==
  /\ page.pc = "refreshChats"
  /\ \/ page' = finally([page EXCEPT !.list = DOMAIN chats])
     \/ page' = finally(catchError(page, "Failed to fetch"))
  /\ UNCHANGED <<relay, pc, pair>>

\* a timer has run: what is changed by every outcome of its call
timerRan(p) ==
  [p EXCEPT !.timers = @ - 1, !.delayed = @ + 1, !.timerIds = Tail(@),
            !.refetches = @ \cup {<<Head(p.timerIds), p.chatId>>}]

\* the timer runs loadChat(chatId).catch(() => {})
page_timer ==
  /\ page.timers > 0
  /\ \/ \E r \in routeGetChat(page.chatId) :
          IF r.status = 200
          THEN page' = [timerRan(page) EXCEPT !.renders = Append(@, r.messages)]
          ELSE page' = [timerRan(page) EXCEPT !.swallowed = @ + 1]
     \/ page' = [timerRan(page) EXCEPT !.swallowed = @ + 1]
  /\ UNCHANGED <<relay, pc, pair>>

InitPage ==
  /\ chats = [c \in {"c1"} |-> NULL]
  /\ messages = <<>>
  /\ now = 0
  /\ pc = "idle"
  /\ body = CHOOSE b \in Bodies : ~b.json
  /\ chatId = "undefined" /\ content = <<>> /\ stream = TRUE /\ apiKey = ""
  /\ payload = NoPayload
  /\ dsRes = NoRes
  /\ pos = 0 /\ buffer = <<>> /\ assistant = <<>> /\ out = <<>>
  /\ received = <<>> /\ events = <<>>
  /\ streamOut = "none"
  /\ res = NoResponse
  /\ log = <<>>
  /\ pcDel = "idle"
  /\ page = IdlePage
  /\ pair = NoPair

\* one send of the page, served by routeChat
NextPage ==
  \/ page_onSend
  \/ page_fetchFails
  \/ routeChat_fromPage
  \/ routeChat_chatExists
  \/ routeChat_insertUser
  \/ routeChat_updateTitle
  \/ routeChat_fetch
  \/ upstream_respond_short
  \/ routeChat_stream
  \/ pull_read
  \/ pull_chunk
  \/ pull_done
  \/ pull_insertAssistant
  \/ pull_readFails
  \/ page_response
  \/ page_read_chunk
  \/ page_read_done
  \/ page_read_fails
  \/ page_loadChat
  \/ page_refreshChats
  \/ page_timer

SpecPage == InitPage /\ [][NextPage]_vars

\* upstream answers to a streaming request that are complete frames of
\* every kind but the multi-byte one, over a transport that does not fail
PlainFrameSeqs == UNION {[1..k -> {1, 4, 5, 6}] : k \in 0..MaxFrames}

upstream_respond_frames ==
  /\ pc = "fetch" /\ stream
  /\ \E fs \in PlainFrameSeqs :
       dsRes' = [status |-> 200, ok |-> TRUE, body |-> "sse", text |-> <<>>,
                 frames |-> fs, tail |-> <<>>]
  /\ pc' = "dsRes"
  /\ UNCHANGED <<store, locals, payload, tee, res, log, pcDel, others>>

\* one send of the page, served by routeChat from a well-terminated stream
NextFrames ==
  \/ page_onSend
  \/ routeChat_fromPage
  \/ routeChat_chatExists
  \/ routeChat_insertUser
  \/ routeChat_updateTitle
  \/ routeChat_fetch
  \/ upstream_respond_frames
  \/ routeChat_stream
  \/ pull_read
  \/ pull_chunk
  \/ pull_done
  \/ pull_insertAssistant
  \/ page_response
  \/ page_read_chunk
  \/ page_read_done
  \/ page_loadChat
  \/ page_refreshChats

SpecFrames == InitPage /\ [][NextFrames]_vars

\* ------------------------------------------------- the page of public/chat.js
\* public/chat.js, the read loop for one chunk: the loop has no test of
\* j.__stored and the page no stored variable, so the stored frame is a frame
\* without a delta
chatjs_consume(p, value) ==
  LET d == decodeStream(p.pend \o value)
      parts == split(p.buffer \o d.text, <<"n", "n">>)
      k == Len(parts)
      evts == SubSeq(parts, 1, k - 1)
  IN  [p EXCEPT !.cpos = @ + Len(value), !.pend = d.pend, !.decoded = @ \o d.text,
                !.buffer = parts[k],
                !.full = @ \o captureAll(evts), !.bubble = appendText(@, captureAll(evts))]

\* createChat: the chats table with the new row
createChat(id) ==
  [c \in DOMAIN chats \cup {id} |-> IF c \in DOMAIN chats THEN chats[c] ELSE NULL]

\* the chats that createChat makes in one behaviour
MaxChats == 2

\* the ids crypto.randomUUID() may still give
NewIds == <<"c2", "c3", "c4">>
FreshIds == {NewIds[i] : i \in 1..MaxChats}

\* what GET /api/chats/:id may answer: the answers of routeGetChat, and a
\* 500 when a query of routeGetChat throws
getChatAnswers(id) == routeGetChat(id) \cup {[status |-> 500, messages |-> <<>>]}

\* public/chat.js, onSend up to the call of fetch
chatjs_onSend ==
  /\ page.pc = "idle" /\ pc = "idle"
  /\ \E input \in Inputs :
       LET text == trim(input)
       IN  IF text = <<>> \/ page.sending
           THEN UNCHANGED <<page, pc>>
           ELSE /\ page' = [page EXCEPT !.sending = TRUE, !.disabled = TRUE, !.text = text,
                                        !.sentTo = page.chatId,
                                        !.bubbles = @ + 2, !.bubble = <<>>,
                                        !.full = <<>>, !.pc = "fetch"]
                /\ pc' = "start"
  /\ UNCHANGED <<relay, pair>>

\* public/chat.js: reader.read() yields a chunk
chatjs_read_chunk ==
  /\ page.pc = "read"
  /\ \E k \in 1..(Len(out) - page.cpos) :
       page' = chatjs_consume(page, SubSeq(out, page.cpos + 1, page.cpos + k))
  /\ UNCHANGED <<relay, pc, pair>>

\* public/chat.js: reader.read() yields done, and the page awaits loadChat
chatjs_read_done ==
  /\ page.pc = "read"
  /\ streamOut = "closed" /\ page.cpos = Len(out)
  /\ page' = [page EXCEPT !.pc = "loadChat", !.replaced = 0]
  /\ UNCHANGED <<relay, pc, pair>>

\* public/chat.js, loadChat: renderMessages; for an answer that is not ok a
\* new conversation takes the place of chatId and loadChat runs again, or
\* createChat throws; a rejected fetch is a throw as well, and onSend
\* catches both
chatjs_loadChat ==
  /\ page.pc = "loadChat"
  /\ \/ \E r \in getChatAnswers(page.chatId) :
          IF r.status = 200
          THEN /\ page' = finally([page EXCEPT !.loads = @ + 1, !.renders = Append(@, r.messages)])
               /\ UNCHANGED chats
          ELSE \/ \E id \in FreshIds \ DOMAIN chats :
                    /\ chats' = createChat(id)
                    /\ page' = [page EXCEPT !.loads = @ + 1, !.chatId = id,
                                            !.replaced = @ + 1]
               \/ /\ page' = finally(catchError([page EXCEPT !.loads = @ + 1],
                                                 "Failed to create chat"))
                  /\ UNCHANGED chats
     \/ /\ page' = finally(catchError([page EXCEPT !.loads = @ + 1], "Failed to fetch"))
        /\ UNCHANGED chats
  /\ UNCHANGED <<messages, now, locals, payload, dsRes, tee, res, log, pcDel, pc, pair>>

\* one send of the page of public/chat.js, served by routeChat
NextChatJs ==
  \/ chatjs_onSend
  \/ routeChat_fromPage
  \/ routeChat_chatExists
  \/ routeChat_insertUser
  \/ routeChat_updateTitle
  \/ routeChat_fetch
  \/ upstream_respond_frames
  \/ routeChat_stream
  \/ pull_read
  \/ pull_chunk
  \/ pull_done
  \/ pull_insertAssistant
  \/ page_response
  \/ chatjs_read_chunk
  \/ chatjs_read_done
  \/ chatjs_loadChat

SpecChatJs == InitPage /\ [][NextChatJs]_vars

\* ------------------------------------------------- the page, send after send
\* the sends one page makes
MaxSends == 1

\* upstream answers to the sends of a page that sends more than once: one
\* delta frame, one frame that ends after a single line feed, or a failure
SendResponses ==
  {[status |-> 200, ok |-> TRUE, body |-> "sse", text |-> <<>>, frames |-> <<1>>, tail |-> <<>>],
   [status |-> 200, ok |-> TRUE, body |-> "sse", text |-> <<>>, frames |-> <<>>,
    tail |-> <<"d", "s", "{", "a", "}", "n">>],
   [status |-> 500, ok |-> FALSE, body |-> "text", text |-> <<"x">>, frames |-> <<>>, tail |-> <<>>]}

upstream_respond_send ==
  /\ pc = "fetch" /\ stream
  /\ \E r \in SendResponses : dsRes' = r
  /\ pc' = "dsRes"
  /\ UNCHANGED <<store, locals, payload, tee, res, log, pcDel, others>>

\* routeChat is not running: no request has arrived, or the last one has
\* returned or come to rest
NoRequest ==
  \/ pc \in {"idle", "start", "returned", "done"}
  \/ pc = "pull" /\ streamOut # "readable"

\* mutant: onSend does not test sending
onSend_noGuard ==
  /\ \E input \in Inputs :
       LET text == trim(input)
       IN  IF text = <<>> \/ page.chatId = "null"
           THEN UNCHANGED vars
           ELSE /\ page.finished < MaxSends
                /\ NoRequest
                /\ page' = [page EXCEPT !.sending = TRUE, !.disabled = TRUE, !.text = text,
                                        !.sentTo = page.chatId,
                                        !.bubbles = @ + 2, !.bubble = <<>>, !.error = NoError,
                                        !.looped = FALSE,
                                        !.full = <<>>, !.stored = FALSE, !.pc = "fetch"]
                /\ pc' = "start"
                /\ body' = CHOOSE b \in Bodies : ~b.json
                /\ chatId' = "undefined" /\ content' = <<>> /\ stream' = TRUE /\ apiKey' = ""
                /\ payload' = NoPayload /\ dsRes' = NoRes
                /\ pos' = 0 /\ buffer' = <<>> /\ assistant' = <<>> /\ out' = <<>>
                /\ received' = <<>> /\ events' = <<>> /\ streamOut' = "none"
                /\ res' = NoResponse /\ log' = <<>>
                /\ UNCHANGED <<store, pcDel, pair>>

\* a click on the send button or Enter in the input, at any moment: onSend
\* up to the call of fetch, or its return at the guard.  The request is a
\* new call of routeChat, with locals of its own; the model lets it start
\* when the call before it is over
onSend ==
  /\ \E input \in Inputs :
       LET text == trim(input)
       IN  IF text = <<>> \/ page.sending \/ page.chatId = "null"
           THEN UNCHANGED vars
           ELSE /\ page.finished < MaxSends
                /\ NoRequest
                /\ page' = [page EXCEPT !.sending = TRUE, !.disabled = TRUE, !.text = text,
                                        !.sentTo = page.chatId,
                                        !.bubbles = @ + 2, !.bubble = <<>>, !.error = NoError,
                                        !.looped = FALSE,
                                        !.full = <<>>, !.stored = FALSE, !.pc = "fetch"]
                /\ pc' = "start"
                /\ body' = CHOOSE b \in Bodies : ~b.json
                /\ chatId' = "undefined" /\ content' = <<>> /\ stream' = TRUE /\ apiKey' = ""
                /\ payload' = NoPayload /\ dsRes' = NoRes
                /\ pos' = 0 /\ buffer' = <<>> /\ assistant' = <<>> /\ out' = <<>>
                /\ received' = <<>> /\ events' = <<>> /\ streamOut' = "none"
                /\ res' = NoResponse /\ log' = <<>>
                /\ UNCHANGED <<store, pcDel, pair>>

\* the sends of one page, one after the other, with clicks at any moment
NextSends ==
  \/ onSend
  \/ page_fetchFails
  \/ routeChat_fromPage
  \/ routeChat_chatExists
  \/ routeChat_insertUser
  \/ routeChat_updateTitle
  \/ routeChat_fetch
  \/ upstream_respond_send
  \/ routeChat_stream
  \/ pull_read
  \/ pull_chunk
  \/ pull_done
  \/ pull_insertAssistant
  \/ page_response
  \/ page_read_chunk
  \/ page_read_done
  \/ page_read_fails
  \/ page_loadChat
  \/ page_refreshChats
  \/ page_timer

SpecSends == InitPage /\ [][NextSends]_vars

\* ------------------------------------------------------------ the older page
\* pushHistory(msg)
pushHistory(p, role, text) ==
  [p EXCEPT !.history = Append(@, [role |-> role, content |-> text])]

\* the finally block of the older onSend: the indicators, the two controls
\* and the focus
legacy_finally(p) ==
  [p EXCEPT !.disabled = FALSE, !.pc = "idle",
            !.cpos = 0, !.pend = <<>>, !.buffer = <<>>, !.decoded = <<>>,
            !.finished = @ + 1]

\* the older onSend up to the call of fetch, on a click or Enter at any
\* moment
legacy_onSend ==
  /\ \E input \in Inputs :
       LET text == trim(input)
       IN  IF text = <<>> \/ page.sending
           THEN UNCHANGED vars
           ELSE /\ page.finished < MaxSends
                /\ page' = [pushHistory(page, "user", text) EXCEPT
                              !.sending = TRUE, !.disabled = TRUE, !.text = text,
                              !.bubbles = @ + 1, !.bubble = <<>>, !.error = NoError,
                              !.looped = FALSE, !.full = <<>>, !.pc = "fetch"]
                /\ res' = NoResponse /\ out' = <<>> /\ streamOut' = "none"
                /\ UNCHANGED <<store, locals, payload, dsRes, pos, buffer, assistant,
                               received, events, log, pcDel, pc, pair>>

\* what POST /api/chat answers to the older page: a status that is not a
\* success, or an event stream
legacy_respond ==
  /\ page.pc = "fetch" /\ res.kind = "none"
  /\ \/ /\ \E st \in {400, 500} : res' = badJSON(st, "error")
        /\ UNCHANGED <<out, streamOut>>
     \/ /\ res' = [status |-> 200, kind |-> "stream", msg |-> "", text |-> <<>>]
        /\ \E fs \in PlainFrameSeqs : out' = frameBytes(fs)
        /\ streamOut' = "closed"
  /\ UNCHANGED <<store, locals, payload, dsRes, pos, buffer, assistant,
                 received, events, log, pcDel, pc, others>>

\* fetch rejects
legacy_fetchFails ==
  /\ page.pc = "fetch" /\ res.kind = "none"
  /\ page' = legacy_finally(pushHistory(catchError(page, "Failed to fetch"), "assistant", <<"!">>))
  /\ UNCHANGED <<relay, pc, pair>>

\* fetch resolves: the error text, its history entry and the return, or
\* getReader()
legacy_response ==
  /\ page.pc = "fetch" /\ res.kind # "none"
  /\ IF res.status \notin 200..299
     THEN page' = legacy_finally(pushHistory(
                    [page EXCEPT !.error = [kind |-> "status", status |-> res.status, body |-> res],
                                 !.bubble = appendText(@, <<"X">>)],
                    "assistant", <<"X">>))
     ELSE page' = [page EXCEPT !.pc = "read", !.looped = TRUE, !.cpos = 0,
                               !.buffer = <<>>, !.pend = <<>>, !.decoded = <<>>]
  /\ UNCHANGED <<relay, pc, pair>>

\* reader.read() yields a chunk
legacy_read_chunk ==
  /\ page.pc = "read"
  /\ \E k \in 1..(Len(out) - page.cpos) :
       page' = chatjs_consume(page, SubSeq(out, page.cpos + 1, page.cpos + k))
  /\ UNCHANGED <<relay, pc, pair>>

\* reader.read() yields done: the assistant entry of the history, then
\* finally
legacy_read_done ==
  /\ page.pc = "read"
  /\ streamOut = "closed" /\ page.cpos = Len(out)
  /\ page' = legacy_finally(pushHistory(page, "assistant",
                                        IF page.full # <<>> THEN page.full ELSE page.bubble))
  /\ UNCHANGED <<relay, pc, pair>>

\* reader.read() rejects
legacy_read_fails ==
  /\ page.pc = "read"
  /\ page' = legacy_finally(pushHistory(catchError(page, "network error"), "assistant", <<"!">>))
  /\ UNCHANGED <<relay, pc, pair>>

\* the sends of the older page
NextLegacy ==
  \/ legacy_onSend
  \/ legacy_respond
  \/ legacy_fetchFails
  \/ legacy_response
  \/ legacy_read_chunk
  \/ legacy_read_done
  \/ legacy_read_fails

SpecLegacy == InitPage /\ [][NextLegacy]_vars

\* --------------------------------------- the page with its chat list in use
\* the clicks on the new-chat button, the clear button and the chat list
MaxClicks == 1

\* the handler of a click has thrown or returned
uiOver(p) == [p EXCEPT !.ui = "none", !.target = "none"]

\* a click on the new-chat or the clear button: onNewChat up to its call of
\* createChat.  The model runs one click handler at a time
onNewChat ==
  /\ page.ui = "none" /\ page.clicks < MaxClicks
  /\ page' = [page EXCEPT !.ui = "new_create", !.clicks = @ + 1]
  /\ UNCHANGED <<relay, pc, pair>>

\* a click on a chat of the list that is not the current one: chatId is the
\* clicked id, and loadChat is called with it
chatList_switch ==
  /\ page.ui = "none" /\ page.clicks < MaxClicks
  /\ \E id \in page.list \ {page.chatId} :
       page' = [page EXCEPT !.chatId = id, !.ui = "switch_load", !.target = id,
                            !.clicks = @ + 1]
  /\ UNCHANGED <<relay, pc, pair>>

\* a click on the delete icon of a chat of the list, confirmed: the handler
\* up to its call of deleteChat
chatList_delete ==
  /\ page.ui = "none" /\ page.clicks < MaxClicks
  /\ \E id \in page.list :
       page' = [page EXCEPT !.ui = "del_delete", !.target = id, !.clicks = @ + 1]
  /\ UNCHANGED <<relay, pc, pair>>

\* await deleteChat(id): routeDeleteChat deletes the rows of the chat and the
\* chat, and the handler goes on with createChat or refreshChats; a 404 or
\* a failed request is thrown to the handler's catch
ui_deleteChat ==
  /\ page.ui = "del_delete"
  /\ \/ /\ chatExists(page.target)
        /\ messages' = SelectSeq(messages, LAMBDA m : m.chat_id # page.target)
        /\ chats' = [c \in DOMAIN chats \ {page.target} |-> chats[c]]
        /\ page' = [page EXCEPT !.ui = IF page.target = page.chatId
                                       THEN "del_create" ELSE "del_refreshOther"]
     \/ /\ page' = uiOver(page)
        /\ UNCHANGED <<chats, messages>>
  /\ UNCHANGED <<now, locals, payload, dsRes, tee, res, log, pcDel, pc, pair>>

\* chatId = await createChat(): routeCreateChat makes a chat with a new id,
\* or the request fails and the handler is over
ui_createChat ==
  /\ page.ui \in {"new_create", "del_create"}
  /\ \/ \E id \in FreshIds \ DOMAIN chats :
          /\ chats' = createChat(id)
          /\ page' = [page EXCEPT !.chatId = id,
                                  !.ui = IF page.ui = "new_create"
                                         THEN "new_refresh" ELSE "del_refresh"]
     \/ /\ page' = uiOver(page)
        /\ UNCHANGED chats
  /\ UNCHANGED <<messages, now, locals, payload, dsRes, tee, res, log, pcDel, pc, pair>>

\* await refreshChats() in a click handler: the chat list is rendered, or
\* the answer is not ok and it returns, or fetch rejects; then loadChat is
\* called with the chatId of that moment, or the handler is over
ui_refreshChats ==
  /\ page.ui \in {"new_refresh", "del_refresh", "del_refreshOther"}
  /\ \/ \E shown \in {page.list, DOMAIN chats} :
          page' = IF page.ui = "del_refreshOther"
                  THEN uiOver([page EXCEPT !.list = shown])
                  ELSE [page EXCEPT !.list = shown, !.target = page.chatId,
                                    !.ui = IF page.ui = "new_refresh"
                                           THEN "new_load" ELSE "del_load"]
     \/ page' = uiOver(page)
  /\ UNCHANGED <<relay, pc, pair>>

\* await loadChat(id) in a click handler: renderMessages, or the throw
ui_loadChat ==
  /\ page.ui \in {"new_load", "del_load", "switch_load"}
  /\ \/ \E r \in routeGetChat(page.target) :
          IF r.status = 200
          THEN page' = uiOver([page EXCEPT !.renders = Append(@, r.messages)])
          ELSE page' = uiOver(page)
     \/ page' = uiOver(page)
  /\ UNCHANGED <<relay, pc, pair>>

\* the page after init: the current chat c1 and an older chat c0 are in the
\* chat list
InitUI ==
  /\ chats = [c \in {"c0", "c1"} |-> NULL]
  /\ messages = <<>>
  /\ now = 0
  /\ pc = "idle"
  /\ body = CHOOSE b \in Bodies : ~b.json
  /\ chatId = "undefined" /\ content = <<>> /\ stream = TRUE /\ apiKey = ""
  /\ payload = NoPayload
  /\ dsRes = NoRes
  /\ pos = 0 /\ buffer = <<>> /\ assistant = <<>> /\ out = <<>>
  /\ received = <<>> /\ events = <<>>
  /\ streamOut = "none"
  /\ res = NoResponse
  /\ log = <<>>
  /\ pcDel = "idle"
  /\ page = [IdlePage EXCEPT !.list = {"c0", "c1"}]
  /\ pair = NoPair

\* the sends of the page and the clicks on its buttons and its chat list
NextUI ==
  \/ NextSends
  \/ onNewChat
  \/ chatList_switch
  \/ chatList_delete
  \/ ui_deleteChat
  \/ ui_createChat
  \/ ui_refreshChats
  \/ ui_loadChat

SpecUI == InitUI /\ [][NextUI]_vars

\* a conversation that already holds messages: n earlier rows, user and
\* assistant in turn, one per millisecond, the last of them at time 0
HistoryLens == {0, MaxHistory - 2, MaxHistory - 1, MaxHistory}

earlierMessages(n) ==
  [k \in 1..n |-> [chat_id |-> "c1", role |-> IF k % 2 = 1 THEN "user" ELSE "assistant",
                   content |-> <<"a">>, created_at |-> k - n]]

InitHistory ==
  /\ \E n \in HistoryLens :
       /\ messages = earlierMessages(n)
       /\ chats = [c \in {"c1"} |-> IF n = 0 THEN NULL ELSE <<"a">>]
  /\ now = 0
  /\ pc = "start"
  /\ body = CHOOSE b \in Bodies : ~b.json
  /\ chatId = "undefined" /\ content = <<>> /\ stream = TRUE /\ apiKey = ""
  /\ payload = NoPayload
  /\ dsRes = NoRes
  /\ pos = 0 /\ buffer = <<>> /\ assistant = <<>> /\ out = <<>>
  /\ received = <<>> /\ events = <<>>
  /\ streamOut = "none"
  /\ res = NoResponse
  /\ log = <<>>
  /\ pcDel = "idle"
  /\ page = IdlePage
  /\ pair = NoPair

\* routeChat up to the call of fetch
NextHistory ==
  \/ routeChat_validate
  \/ routeChat_chatExists
  \/ routeChat_insertUser
  \/ routeChat_updateTitle
  \/ routeChat_fetch

SpecHistory == InitHistory /\ [][NextHistory]_vars

\* a delete-chat request for the same conversation, at any point of it
NextDelete ==
  \/ Next
  \/ routeDeleteChat_chatExists
  \/ deleteChat_messages
  \/ deleteChat_chat

SpecDelete == Init /\ [][NextDelete]_vars


\* ---------------------------------------------------------------- properties
rowsOf(role) == SelectSeq(messages, LAMBDA m : m.role = role)

Count(seq, e) == Cardinality({i \in 1..Len(seq) : seq[i] = e})

Before(seq, a, b) ==
  \A i, j \in 1..Len(seq) : seq[i] = a /\ seq[j] = b => i < j

\* the call was turned away by one of the checks before the user insert
Rejected ==
  /\ pc = "returned"
  /\ \/ res.kind = "error" /\ res.status \in {400, 404}
     \/ res.kind = "exception" /\ ~payload.sent

PassedValidation == pc \notin {"start", "chatExists"} /\ ~Rejected

\* every frame of the upstream body is blank-line-terminated and carries a
\* content delta (or is the [DONE] frame), and nothing follows the last one
WellFormedBody ==
  /\ dsRes.body = "sse"
  /\ dsRes.tail = <<>>
  /\ \A i \in 1..Len(dsRes.frames) : FrameCat[dsRes.frames[i]].kind \in {"delta", "done"}

\* C1 (as claimed): whenever the upstream body is a sequence of
\* blank-line-terminated frames with deltas d1..dN, the text accumulated at
\* end of stream is d1+...+dN, however the bytes were cut into chunks.
C1_LosslessReassembly ==
  (streamOut = "closed" /\ WellFormedBody) => assistant = frameDeltas(dsRes.frames)

\* C2: at a clean end of stream the bytes enqueued are the upstream bytes, in
\* order, followed by exactly one stored frame; and whenever a read of the
\* upstream body is outstanding, every byte read before it is already enqueued.
C2_TeeFidelity ==
  /\ streamOut = "closed" => out = upstreamBytes(dsRes) \o StoredFrame
  /\ pc \in {"pull", "read", "insertAssistant"} =>
       out = SubSeq(upstreamBytes(dsRes), 1, pos)

C2_Witness ==
  /\ streamOut = "closed"
  /\ Len(dsRes.frames) = 2
  /\ dsRes.tail # <<>>

\* C3: a call that passed validation has inserted exactly one user message,
\* and did so before the upstream request went out; there is at most one
\* assistant insert, and only after the upstream body has ended; a step that
\* processes a chunk leaves the store as it was.
C3_State ==
  /\ Len(rowsOf("user")) <= 1
  /\ Count(log, "userInsert") = Len(rowsOf("user"))
  /\ (PassedValidation /\ pc # "insertUser") =>
        /\ Len(rowsOf("user")) = 1
        /\ rowsOf("user")[1].content = content
        /\ rowsOf("user")[1].chat_id = chatId
  /\ payload.sent => Len(rowsOf("user")) = 1 /\ Before(log, "userInsert", "fetch")
  /\ Len(rowsOf("assistant")) <= 1
  /\ Count(log, "assistantInsert") = Len(rowsOf("assistant"))
  /\ Len(rowsOf("assistant")) = 1 =>
        "upstreamEnd" \in {log[i] : i \in 1..Len(log)}
        /\ Before(log, "upstreamEnd", "assistantInsert")

C3_PersistencePlacement ==
  /\ []C3_State
  /\ [][(pc = "read" /\ pc' = "pull") => (messages' = messages /\ chats' = chats)]_vars

C3_Witness ==
  /\ streamOut = "closed"
  /\ pos > 0
  /\ Len(rowsOf("user")) = 1
  /\ Len(rowsOf("assistant")) = 1

\* C4: after the upstream reader reports done, the assistant insert (made
\* when the text is non-empty after trimming) is complete before the stored
\* frame is enqueued, the stream closes only with the stored frame enqueued,
\* exactly one stored frame is enqueued, and it is enqueued also when nothing
\* was inserted.
C4_EndOfStreamOrder ==
  LET bytes == upstreamBytes(dsRes)
      storedEnqueued == Len(out) > Len(bytes)
  IN  /\ pc = "insertAssistant" => streamOut = "readable" /\ ~storedEnqueued
      /\ storedEnqueued =>
           /\ out = bytes \o StoredFrame
           /\ streamOut = "closed"
           /\ trim(assistant) # <<>> => Len(rowsOf("assistant")) = 1
      /\ streamOut = "closed" => storedEnqueued
      /\ (streamOut = "closed" /\ trim(assistant) = <<>>) => rowsOf("assistant") = <<>>

C4_Witness ==
  /\ streamOut = "closed"
  /\ Len(rowsOf("assistant")) = 1
  /\ out = upstreamBytes(dsRes) \o StoredFrame

\* C5: at the end of a stream, text that is empty or only whitespace is not
\* stored, and text that is non-empty after trimming is stored in full.
C5_EmptyReplyNotPersisted ==
  streamOut = "closed" =>
    IF trim(assistant) = <<>>
    THEN rowsOf("assistant") = <<>>
    ELSE /\ Len(rowsOf("assistant")) = 1
         /\ rowsOf("assistant")[1].content = assistant
         /\ rowsOf("assistant")[1].chat_id = chatId

C5_Witness ==
  /\ streamOut = "closed"
  /\ assistant = <<"s">>
  /\ rowsOf("assistant") = <<>>

\* C6 (as claimed): when a read of the upstream body fails after text has
\* been accumulated, that text is inserted as the assistant message.
C6_PartialReplyPersisted ==
  (pc = "done" /\ streamOut = "errored" /\ trim(assistant) # <<>>) =>
    /\ Len(rowsOf("assistant")) = 1
    /\ rowsOf("assistant")[1].content = assistant

C8_MissingCredential ==
  (pc = "returned" /\ PassedValidation /\ apiKey = "" /\ ~payload.sent) =>
    /\ res = badJSON(401, "Missing DEEPSEEK_API_KEY")
    /\ messages = <<>>
    /\ \A c \in DOMAIN chats : chats[c] = NULL

\* C9 (as claimed): a body that is not JSON, a chat_id that is absent or
\* empty, or a content that is absent or empty after trimming gets a 400
\* error response, with store and upstream untouched.
C9_FieldValidation ==
  (pc = "returned" /\
     \/ ~body.json
     \/ body.chat_id \in {"undefined", ""}
     \/ body.content.kind = "absent"
     \/ body.content.kind = "str" /\ trim(body.content.val) = <<>>) =>
    /\ res.status = 400 /\ res.kind = "error"
    /\ ~payload.sent
    /\ messages = <<>>
    /\ \A c \in DOMAIN chats : chats[c] = NULL

C11_StreamingUpstreamError ==
  (pc = "returned" /\ stream /\ dsRes.body # "none" /\ ~dsRes.ok) =>
    /\ res = [status |-> dsRes.status, kind |-> "text", msg |-> "", text |-> dsRes.text]
    /\ rowsOf("assistant") = <<>>
    /\ out = <<>> /\ streamOut = "none"


\* C18 (as claimed): getMessages returns the user message of a completed
\* request before that request's assistant message, also when both rows
\* carry the same created_at.
C18_UserBeforeAssistant ==
  (pc \in {"done", "returned"} /\ Len(rowsOf("user")) = 1 /\ Len(rowsOf("assistant")) = 1) =>
    \A h \in getMessages(chatId, HistoryLimit) :
      Len(h) = 2 /\ h[1].role = "user" /\ h[2].role = "assistant"

\* ------------------------------------------------------------------ frames
IsPrefix(a, b) == Len(a) <= Len(b) /\ SubSeq(b, 1, Len(a)) = a

\* the text cut at its blank lines, read from left to right; cur is the
\* part being read
RECURSIVE cutAtBlankLines(_, _)
cutAtBlankLines(text, cur) ==
  IF text = <<>> THEN <<cur>>
  ELSE IF Len(text) >= 2 /\ text[1] = "n" /\ text[2] = "n"
       THEN <<cur>> \o cutAtBlankLines(Drop(text, 2), <<>>)
  ELSE cutAtBlankLines(Tail(text), Append(cur, text[1]))

\* the frames of a text whose blank line has arrived
completeFrames(text) ==
  LET parts == cutAtBlankLines(text, <<>>) IN SubSeq(parts, 1, Len(parts) - 1)

\* d(F1) \o ... \o d(Fk)
RECURSIVE deltasInOrder(_)
deltasInOrder(fs) ==
  IF fs = <<>> THEN <<>>
  ELSE deltasInOrder(SubSeq(fs, 1, Len(fs) - 1)) \o captureDelta(fs[Len(fs)])

\* assistant is d(F1) \o ... \o d(Fn) for the frames completed so far
C20_State == assistant = deltasInOrder(completeFrames(received))

\* C20: assistant only grows by appending (its value at a step is a prefix of
\* its value at the next, hence at every later step), and so does the text
\* received; at every step assistant is d(F1) \o ... \o d(Fn) for the frames
\* F1..Fn completed so far, in the order of their arrival, so that a chunk
\* that completes F1..Fk appends d(F1), ..., d(Fk) in this order after
\* everything appended before.
C20_DeltaOrder ==
  /\ []C20_State
  /\ [][IsPrefix(assistant, assistant') /\ IsPrefix(received, received')]_vars

\* one chunk has completed two frames with different deltas
C20_Witness ==
  /\ pc = "pull"
  /\ Len(events) = 2
  /\ captureDelta(events[1]) # <<>> /\ captureDelta(events[2]) # <<>>
  /\ captureDelta(events[1]) # captureDelta(events[2])
  /\ assistant = captureDelta(events[1]) \o captureDelta(events[2])


\* ----------------------------------------------------------------- history
SystemMessage == [role |-> "system", content |-> <<SYS_PROMPT>>]

\* C17 (as claimed): the messages sent upstream are the system prompt
\* followed by the full stored history of the conversation in fetch order,
\* for a conversation of any length.
C17_FullHistory ==
  pc = "fetch" =>
    \E h \in getMessages(chatId, Len(messages)) : payload.messages = <<SystemMessage>> \o h

\* C17 (amended): the messages sent upstream are the system prompt followed
\* by the last 30 messages of the history getMessages returns, in fetch
\* order (the whole history when it has at most 30 messages).
C17_Last30OfHistory ==
  pc = "fetch" =>
    \E h \in getMessages(chatId, HistoryLimit) :
      payload.messages =
        <<SystemMessage>> \o SubSeq(h, IF Len(h) > 30 THEN Len(h) - 29 ELSE 1, Len(h))

\* a request for a conversation of more than 30 messages has been sent upstream
C17_Witness ==
  /\ pc = "fetch" /\ payload.sent
  /\ Len(messages) > 30
  /\ Len(payload.messages) = 31


\* -------------------------------------------------------------- disconnect
\* the request has come to rest: pull is not running and will not be called
AtRest == pc = "done" \/ (pc = "pull" /\ streamOut # "readable")

\* C15 (as claimed): after the caller has cancelled the response stream the
\* relay still reads the upstream body to its end and then inserts the
\* accumulated assistant message.
C15_DisconnectKeepsPersisting ==
  (streamOut = "cancelled" /\ AtRest /\ Count(log, "readError") = 0) =>
    /\ pos = Len(upstreamBytes(dsRes))
    /\ trim(assistant) # <<>> =>
         \E i \in 1..Len(messages) :
           messages[i].role = "assistant" /\ messages[i].content = assistant


\* ------------------------------------------------------------ two requests
\* C16 (as claimed): with two requests in flight and their chunks processed
\* in any interleaving, the assistant message each request persists equals
\* the concatenation of that request's own deltas.
C16_PerRequestIsolation ==
  \A r \in 1..2 :
    pair[r].pc = "done" =>
      LET own == frameDeltas(pair[r].frames)
      IN  /\ pair[r].inserted = IF trim(own) # <<>> THEN <<own>> ELSE <<>>
          /\ trim(own) # <<>> =>
               \E i \in 1..Len(messages) :
                 /\ messages[i].chat_id = pair[r].chatId
                 /\ messages[i].role = "assistant"
                 /\ messages[i].content = own


\* ------------------------------------------------------------ the chat page
hasRow(list, role, text) ==
  \E i \in 1..Len(list) : list[i].role = role /\ list[i].content = text

\* routeChat has read the upstream body to its end and has made the insert
\* that its end-of-stream branch makes
PersistenceComplete ==
  /\ pc = "done"
  /\ pos = Len(upstreamBytes(dsRes))
  /\ Count(log, "upstreamEnd") = 1
  /\ trim(assistant) # <<>> => hasRow(messages, "assistant", assistant)

C13_FallbackRefetch ==
  (page.looped /\ page.pc \in {"refreshChats", "idle"} /\ ~page.stored) =>
    page.timers + page.delayed = 1

\* C14: after a response with a non-success status the assistant bubble
\* carries the error text with that status and body, the page has made no
\* re-fetch of the conversation, at once or by timer, and it is idle again.
C14_NonSuccessResponse ==
  /\ page.error.kind = "status" =>
       /\ page.error.status = res.status /\ page.error.status \notin 200..299
       /\ page.error.body = res
       /\ page.bubble = <<"X">>
       /\ page.loads = 0 /\ page.timers = 0 /\ page.delayed = 0 /\ page.renders = <<>>
       /\ page.pc = "idle" /\ ~page.sending /\ ~page.disabled
  /\ (res.kind # "none" /\ res.status \notin 200..299 /\ page.pc = "idle") =>
       page.error.kind = "status"

\* the page has handled a 401 of the relay
C14_Witness ==
  /\ page.error.kind = "status" /\ page.error.status = 401
  /\ page.pc = "idle"

\* the frame is the relay's stored frame
isStoredFrame(f) == f \in {<<"d", "s", "S">>, <<"n", "d", "s", "S">>}

\* buf is what follows a blank line of text, or all of text, and holds no
\* blank line
NoBlankLine(t) == \A i \in 1..(Len(t) - 1) : ~(t[i] = "n" /\ t[i + 1] = "n")

CarryOver(buf, text) ==
  /\ NoBlankLine(buf)
  /\ \E i \in 0..Len(text) :
       /\ buf = Drop(text, i)
       /\ i = 0 \/ (i >= 2 /\ text[i - 1] = "n" /\ text[i] = "n")

\* fs are the last frames of the text that are complete
LastFrames(fs, text) ==
  LET all == completeFrames(text)
  IN  Len(fs) <= Len(all) /\ fs = SubSeq(all, Len(all) - Len(fs) + 1, Len(all))

\* C19: in routeChat's pull and in the page's read loop, after each chunk
\* the carry-over buffer is the text received so far after its last blank
\* line and holds no blank line, and the frames parsed so far are the frames
\* whose blank line has arrived, each parsed once: the frames a chunk makes
\* pull parse are the last of them.
C19_CarryOver ==
  /\ CarryOver(buffer, received)
  /\ C20_State
  /\ LastFrames(events, received)
  /\ page.pc = "read" =>
       /\ CarryOver(page.buffer, page.decoded)
       /\ page.full = deltasInOrder(completeFrames(page.decoded))
       /\ page.stored = \E i \in 1..Len(completeFrames(page.decoded)) :
                          isStoredFrame(completeFrames(page.decoded)[i])

\* both sides hold a frame without its blank line, after frames with deltas
C19_Witness ==
  /\ page.pc = "read"
  /\ page.buffer # <<>> /\ page.full # <<>>
  /\ buffer # <<>> /\ assistant # <<>>


\* ------------------------------------------------------- the effect of a frame
\* the frame's data payload is exactly [DONE]
donePayload(f) == findDataLine(f) # <<>> /\ stripData(findDataLine(f)) = <<"D">>

notDone(fs) == SelectSeq(fs, LAMBDA f : ~donePayload(f))

\* the page is in its read loop or has left it by the end of the stream
PageHasRead == page.pc \in {"read", "loadChat", "refreshChats"}

\* C21: in routeChat's pull and in the page's read loop a frame whose data
\* payload is exactly [DONE] is not handed to JSON.parse, and the text
\* accumulated (assistant, full) is at every step the in-order deltas of the
\* frames completed so far that are not [DONE] frames: a [DONE] frame adds
\* nothing, and the frames after it, in its chunk or a later one, still add
\* their deltas.
C21_DoneSentinel ==
  LET rf == completeFrames(received)
      pf == completeFrames(page.decoded)
  IN  /\ \A i \in 1..Len(rf) : donePayload(rf[i]) => parserInput(rf[i]) = {}
      /\ assistant = deltasInOrder(notDone(rf))
      /\ PageHasRead =>
           /\ \A i \in 1..Len(pf) : donePayload(pf[i]) => parserInput(pf[i]) = {}
           /\ page.full = deltasInOrder(notDone(pf))

\* one chunk gave pull a [DONE] frame and, after it, a frame with a delta,
\* and the page has read both
C21_Witness ==
  /\ pc = "pull" /\ Len(events) = 2
  /\ donePayload(events[1]) /\ assistant = <<"a">>
  /\ page.pc = "read" /\ page.full = <<"a">>
  /\ donePayload(completeFrames(page.decoded)[1])

\* the frame has no data: line, or its data payload is not JSON (and is not
\* the [DONE] payload)
malformed(f) ==
  \/ findDataLine(f) = <<>>
  \/ ~donePayload(f) /\ ~JSONparse(stripData(findDataLine(f))).ok

wellFormed(fs) == SelectSeq(fs, LAMBDA f : ~malformed(f))

\* C22: a frame without a data: line or with a payload that is not JSON adds
\* nothing: assistant and full are at every step the in-order deltas of the
\* completed frames that are not malformed, so the valid frames before and
\* after it all contribute; no error leaves pull or the read loop (the stream
\* is not errored, the page shows no error while it reads); and every byte
\* read from upstream, those of malformed frames included, has been enqueued
\* for the caller.
C22_MalformedSkipped ==
  LET rf == completeFrames(received)
      pf == completeFrames(page.decoded)
  IN  /\ assistant = deltasInOrder(wellFormed(rf))
      /\ streamOut # "errored" /\ res.kind # "exception"
      /\ pc \in {"pull", "read", "insertAssistant", "done"} =>
           SubSeq(out, 1, pos) = SubSeq(upstreamBytes(dsRes), 1, pos)
      /\ PageHasRead => page.full = deltasInOrder(wellFormed(pf))
      /\ page.pc \in {"read", "loadChat"} => page.error = NoError

\* a malformed frame came first and a frame with a delta after it; the relay
\* has closed the stream and the page has read it to its end
C22_Witness ==
  /\ streamOut = "closed" /\ page.pc = "loadChat"
  /\ Len(completeFrames(received)) = 2
  /\ malformed(completeFrames(received)[1])
  /\ assistant = <<"a">> /\ page.full = <<"a">>
  /\ IsPrefix(upstreamBytes(dsRes), out)

\* the frames the page has parsed so far
pageFrames == completeFrames(page.decoded)

\* C23 (as claimed): once the page has parsed the relay's stored frame it has
\* recorded that storage is confirmed, and the frame has added nothing to the
\* display buffer or to the assistant bubble.
C23_StoredFrameRecorded ==
  (PageHasRead /\ \E i \in 1..Len(pageFrames) : isStoredFrame(pageFrames[i])) =>
    /\ page.stored
    /\ page.full = deltasInOrder(SelectSeq(pageFrames, LAMBDA f : ~isStoredFrame(f)))
    /\ page.bubble = page.full

\* ------------------------------------------------------------ render per delta
\* in the read loop the bubble shows full, and full is the in-order deltas
\* of the frames completed so far
C24_State ==
  page.pc = "read" =>
    /\ page.bubble = page.full
    /\ page.full = deltasInOrder(pageFrames)

\* C24: at every point of the page's read loop the text of the assistant
\* bubble equals full, which is the concatenation, in arrival order, of the
\* deltas of the frames completed so far; and a step that leaves the loop by
\* a failed read keeps full and extends the text of the bubble by the
\* network error text.
C24_RenderPerDelta ==
  /\ []C24_State
  /\ [][(page.pc = "read" /\ page'.pc = "idle") =>
          /\ page'.error = networkError("network error")
          /\ page'.full = page.full
          /\ page'.bubble = page.full \o <<"!">>]_vars

\* a read failed after two deltas had been rendered
C24_Witness ==
  /\ page.pc = "idle" /\ page.error = networkError("network error")
  /\ Len(page.full) = 2
  /\ page.bubble = page.full \o <<"!">>

\* ------------------------------------------------------- relay and consumer
\* the page has left its read loop by the end of the stream
PageReadToEnd == page.looped /\ page.pc \in {"loadChat", "refreshChats"}

\* C25 (as claimed): when the stream has ended cleanly the text the page has
\* displayed (full) equals the text routeChat accumulated (assistant), for
\* every upstream byte stream, with or without a blank line at its end, and
\* every chunking on both legs.
C25_TextAgreement ==
  PageReadToEnd => page.full = assistant

\* C26 (as claimed): whenever routeChat has enqueued its stored frame and
\* the page has read the response to its end, the page's stored flag is
\* true, for every upstream byte stream, with or without a blank line at its
\* end, and every chunking.
C26_StoredRecognised ==
  (PageReadToEnd /\ out = upstreamBytes(dsRes) \o StoredFrame) => page.stored

\* ------------------------------------------------------- the end of the stream
\* C27: when routeChat has closed the stream, what was left in the carry-over
\* buffer is still there, unparsed, and the assistant text persisted is the
\* in-order deltas of the frames whose blank line arrived before the stream
\* ended, and of no other frame (no row when that text is blank).
C27_UnterminatedDiscarded ==
  streamOut = "closed" =>
    LET kept == deltasInOrder(completeFrames(received))
    IN  /\ CarryOver(buffer, received)
        /\ IF trim(kept) = <<>>
           THEN rowsOf("assistant") = <<>>
           ELSE /\ Len(rowsOf("assistant")) = 1
                /\ rowsOf("assistant")[1].content = kept

\* the stream ended after a frame with a delta and an unterminated frame with
\* a delta: the row holds the first one alone
C27_Witness ==
  /\ streamOut = "closed"
  /\ captureDelta(buffer) = <<"a">>
  /\ Len(rowsOf("assistant")) = 1
  /\ rowsOf("assistant")[1].content = <<"a">>

\* ------------------------------------------------------------ send and delete
\* the chat-send request and the delete-chat request have both finished
AllFinished ==
  /\ pc \in {"done", "returned"}
  /\ pcDel \in {"deleted", "notFound"}

\* C28 (as claimed): once a chat-send request and a delete-chat request for
\* the same conversation have both finished, in whatever order their steps
\* ran, every message row has a chat_id that has a row in chats.
C28_NoOrphanMessage ==
  AllFinished => \A i \in 1..Len(messages) : messages[i].chat_id \in DOMAIN chats

\* --------------------------------------------------- the submission upstream
\* C29 (as claimed): in the messages sent upstream the last one is the user
\* message this request has just inserted, and the request has put it there
\* once: the messages are the system prompt and rows of the history, at most
\* 30 of them, with nothing appended.
C29_SubmissionLastOnce ==
  (pc = "fetch" /\ payload.sent) =>
    LET m == payload.messages
        row == messages[Len(messages)]
    IN  /\ m[Len(m)] = [role |-> "user", content |-> content, created_at |-> row.created_at]
        /\ Len(m) = 1 + (IF Len(messages) < 30 THEN Len(messages) ELSE 30)

\* ------------------------------------------------------------ blank replies
\* C30 (as claimed): every assistant message in the store has a content that
\* is not empty after trimming, whether a streaming or a non-streaming
\* request stored it.
C30_NoBlankAssistant ==
  \A i \in 1..Len(messages) :
    messages[i].role = "assistant" => trim(messages[i].content) # <<>>

\* ------------------------------------------------------- one send at a time
\* the sends that are between their start and their finally block
inFlight == page.bubbles \div 2 - page.finished

C31_State ==
  /\ inFlight \in {0, 1}
  /\ page.sending <=> inFlight = 1

\* C31: at most one send of the page is between its start and its finally
\* block at any time, whatever clicks and Enter keys arrive, and an onSend
\* that is invoked while sending is true adds no bubble and issues no request.
C31_SingleInFlight ==
  /\ []C31_State
  /\ [][page.sending => /\ page'.bubbles = page.bubbles
                        /\ page'.pc = "fetch" => page.pc = "fetch"
                        /\ page'.sentTo = page.sentTo]_vars

\* a send is reading its response, routeChat is over and the bound on the
\* sends is not reached: the test of sending is all that stops a second send
C31_Witness ==
  /\ page.sending /\ page.pc = "read"
  /\ NoRequest
  /\ page.finished < MaxSends
  /\ page.bubbles = 2

\* --------------------------------------------------------- back to idle
\* C32 (as claimed): after onSend has finished, by whatever path (success,
\* a status that is not a success, a network error during fetch or read, a
\* failed reconciliation fetch), sending is false and the input and the send
\* button are enabled, so that a later send is accepted.
C32_ReturnsToIdle ==
  (page.pc = "idle" /\ page.finished > 0) => ~page.sending /\ ~page.disabled

\* ------------------------------------------------- clicks during a send
\* C33 (as claimed): the conversation id used by the re-fetch after a send,
\* immediate or delayed, is the conversation id that send posted its message
\* to, whatever new-chat, chat-switch and delete-chat clicks arrive while the
\* response is streaming.
C33_ReconcileSameChat ==
  \A f \in page.refetches : f[2] = f[1]

\* C34 (as claimed): renderMessages, which clears the message container, is
\* never executed between the moment a send creates its assistant bubble and
\* the end of that send's read loop: neither by the delayed re-fetch of an
\* earlier send nor by a re-fetch that a click on the chat list triggers.
C34_NoRenderWhileStreaming ==
  [][page.pc \in {"fetch", "read"} => page'.renders = page.renders]_vars

\* ------------------------------------------------ the replacement of a chat
\* C35 (as claimed): loadChat of public/chat.js terminates: whatever the
\* server does, one call of loadChat in the end renders a conversation or
\* throws, and it creates at most one replacement chat.  The number of
\* chats one call has created is the part that a finite run decides.
C35_OneReplacement ==
  page.replaced <= 1


====
